---- MODULE Spec2Model ----
(***************************************************************************)
(* Guidora API gateway: the service registry (config.js, quoted in the     *)
(* gateway README) and the full health check GET /health/full              *)
(* (health route module, src/unnamed/part_001).  The later sections add    *)
(* the servers of api-gateway/index.js, the API client of the front end,   *)
(* the callers of the registry, and the components OnboardingFlow and      *)
(* CareerSelection, each with a specification of its own.                  *)
(*                                                                         *)
(* One invocation of the /health/full handler is followed from the request *)
(* to the response and on to the expiry of the timers it armed.  All the   *)
(* state of an invocation is local to its closure, so invocations do not   *)
(* interact and they are modelled one after another.                       *)
(*                                                                         *)
(* Time is counted in whole seconds since the request arrived.  JavaScript *)
(* runs to completion: while synchronous code or a microtask is runnable   *)
(* no network event or timer is delivered and no time passes.  The         *)
(* timestamp field of the bodies (wall clock) is left out.                 *)
(***************************************************************************)
EXTENDS Integers, Sequences, FiniteSets, TLC

\* ------------------------------------------------------------------ bounds
\* Number of registry entries modelled (the first NumServices keys of
\* CONFIG.services.*, in key order).
NumServices == 3
\* Cap of the clock.
MaxElapsed == 6

\* ------------------------------------------------------- program constants
\* setTimeout(() => controller.abort(), 5000), in seconds
ProbeTimeout == 5

\* The value undefined of JavaScript
Undefined == [undefined |-> TRUE]

\* Object.keys order of CONFIG.services.local / .production
ServiceOrder ==
  << "users", "ai-guidance", "career-atlas", "portfolio", "gamification",
     "simulation", "context", "interview", "notifications", "news" >>

LocalUrls ==
  << "http://user-service:5001", "http://ai-guidance:5002",
     "http://career-atlas:5003", "http://portfolio:5004",
     "http://gamification:5005", "http://simulation:5006",
     "http://context-service:5007", "http://mock-interview:5008",
     "http://notifications:5009", "http://news-feeds:5010" >>

ProductionUrls ==
  << "https://guidora-users-746485305795.us-central1.run.app",
     "https://guidora-ai-746485305795.us-central1.run.app",
     "https://guidora-career-746485305795.us-central1.run.app",
     "https://guidora-portfolio-746485305795.us-central1.run.app",
     "https://guidora-gamify-746485305795.us-central1.run.app",
     "https://guidora-simulation-746485305795.us-central1.run.app",
     "https://guidora-context-746485305795.us-central1.run.app",
     "https://guidora-interview-746485305795.us-central1.run.app",
     "https://guidora-notifications-746485305795.us-central1.run.app",
     "https://guidora-news-746485305795.us-central1.run.app" >>

Min(a, b) == IF a < b THEN a ELSE b

Registered == 1..Min(NumServices, Len(ServiceOrder))

RegisteredNames == {ServiceOrder[k] : k \in Registered}

NameIndex(n) == CHOOSE k \in 1..Len(ServiceOrder) : ServiceOrder[k] = n

\* Slip: one entry left out of the production set.
CONFIGProductionIncomplete ==
  [ services |->
      [ local      |-> [n \in RegisteredNames |-> LocalUrls[NameIndex(n)]],
        production |-> [n \in RegisteredNames \ {"ai-guidance"} |->
                          ProductionUrls[NameIndex(n)]] ] ]

\* CONFIG.services: two URL sets keyed by service name
CONFIG ==
  [ services |->
      [ local      |-> [n \in RegisteredNames |-> LocalUrls[NameIndex(n)]],
        production |-> [n \in RegisteredNames |-> ProductionUrls[NameIndex(n)]] ] ]

\* CONFIG.environment
Environment(prod) == IF prod THEN "production" ELSE "development"

\* Value of response.headers.get(..) for an absent header
NoHeader == "null"

\* Answers a service may give to GET /health: the status code and the value
\* of the x-response-time header
Answers ==
  { [status |-> 200, responseTime |-> "3ms"],
    [status |-> 204, responseTime |-> NoHeader],
    [status |-> 503, responseTime |-> NoHeader] }

\* error.message of a fetch that failed at network level / was aborted
FetchFailedMessage == "fetch failed"
AbortedMessage == "This operation was aborted"

VARIABLES
  isProduction,   \* process.env.NODE_ENV === 'production', read at start
  pc,             \* position of the handler
  serviceMap,     \* const serviceMap (line 16)
  next,           \* index of the next callback serviceNames.map will call
  probe,          \* state of the promise of each async callback
  value,          \* value each callback returned
  net,            \* what the fetch of each probe observed
  timer,          \* state of each probe's setTimeout
  deadline,       \* instant at which each probe's timer is due
  aborted,        \* controller.signal.aborted of each probe
  issued,         \* URLs fetched, in the order of the calls
  settleOrder,    \* probes in the order in which they settled
  elapsed,        \* seconds since the request arrived
  response        \* what was sent with res.status(..).json(..)

\* The gateway server of index.js
VARIABLES
  draft,          \* which server of index.js is running
  rewritesOriginalUrl, \* the proxy library rewrites req.originalUrl
  crashed,        \* the process died of an uncaught exception
  gwPc,           \* position of the request being handled
  req,            \* the inbound request
  unread,         \* what is left to read on the inbound request stream
  sent,           \* requests written to upstream services for this request
  upstream,       \* what the upstream service did with the forwarded request
  thrown,         \* exception raised and not caught while handling the request
  gwElapsed,      \* seconds since the request was forwarded
  gwResponse,     \* the response given to the caller
  prev            \* how the request before this one ended

\* The registry module (config.js) and a caller of getServiceUrl
VARIABLES
  services,       \* the object CONFIG.services
  lookup          \* the getServiceUrl call in progress and what it returned

\* The component OnboardingFlow
VARIABLES
  currentStep,    \* useState(1)
  loading,        \* useState(false)
  savePc,         \* position of saveOnboarding
  stepAtSave,     \* currentStep when the save request was answered
  saveOutcome     \* how the save request ended

\* The component CareerSelection
VARIABLES
  selectedCareers, \* useState([])
  isSaving,        \* useState(false)
  careerPc,        \* position of handleSaveSelections
  saveRequest,     \* the last save request sent: the length of its selected_careers
  lastToast        \* the last message shown with toast

healthVars == << isProduction, pc, serviceMap, next, probe, value, net, timer,
                 deadline, aborted, issued, settleOrder, elapsed, response >>

gatewayVars == << draft, rewritesOriginalUrl, crashed, gwPc, req, unread,
                  sent, upstream, thrown, gwElapsed, gwResponse, prev >>

registryVars == << services, lookup >>

onboardingVars == << currentStep, loading, savePc, stepAtSave, saveOutcome >>

careerVars == << selectedCareers, isSaving, careerPc, saveRequest, lastToast >>

vars == << healthVars, gatewayVars, registryVars, onboardingVars, careerVars >>

NoValue == [status |-> "none"]
NoEvent == [kind |-> "none"]
NoResponse == [code |-> 0]

\* ---------------------------------------------------------------- registry
\* Slip: the URL set looked up under CONFIG.environment
\* ('development' is not a key of CONFIG.services).
getServiceMapByEnvironment(prod) ==
  IF Environment(prod) \in DOMAIN services
    THEN services[Environment(prod)]
    ELSE Undefined

\* Slip: the test of the flag inverted.
getServiceMapInverted(prod) ==
  services[IF prod THEN "local" ELSE "production"]

\* getServiceMap(): CONFIG.services[isProduction ? 'production' : 'local'],
\* read from the object in memory
getServiceMap(prod) ==
  services[IF prod THEN "production" ELSE "local"]

\* Object.keys(map): the keys in insertion order
ObjectKeys(map) == SelectSeq(ServiceOrder, LAMBDA n : n \in DOMAIN map)

\* const serviceNames = Object.keys(serviceMap)
serviceNames == IF serviceMap = Undefined THEN << >> ELSE ObjectKeys(serviceMap)

N == Len(serviceNames)
Probes == 1..N

\* const healthUrl = `${serviceUrl}/health`
healthUrl(serviceUrl) == serviceUrl \o "/health"

\* ------------------------------------------------------------------- probe
\* response.ok
ok(code) == code >= 200 /\ code <= 299

\* Slip: the status code left out of the entry of a non-2xx answer.
ResponseEntryNoCode(i, code, hdr) ==
  IF ok(code)
    THEN [ service |-> serviceNames[i], url |-> serviceMap[serviceNames[i]],
           status |-> "healthy", statusCode |-> code,
           responseTime |-> IF hdr = NoHeader THEN "N/A" ELSE hdr ]
    ELSE [ service |-> serviceNames[i], url |-> serviceMap[serviceNames[i]],
           status |-> "unhealthy",
           responseTime |-> IF hdr = NoHeader THEN "N/A" ELSE hdr ]

\* The object returned after the fetch resolved (lines 37-43)
ResponseEntry(i, code, hdr) ==
  [ service      |-> serviceNames[i],
    url          |-> serviceMap[serviceNames[i]],
    status       |-> IF ok(code) THEN "healthy" ELSE "unhealthy",
    statusCode   |-> code,
    responseTime |-> IF hdr = NoHeader THEN "N/A" ELSE hdr ]

\* The object returned by the catch (lines 45-50)
ErrorEntry(i, message) ==
  [ service |-> serviceNames[i],
    url     |-> serviceMap[serviceNames[i]],
    status  |-> "error",
    error   |-> message ]

\* Slip: the callbacks awaited one after another (for ... await).
ProbeMayStartSerial(i) ==
  /\ i = next
  /\ \A j \in 1..(i - 1) : probe[j] # "inflight"

\* serviceNames.map(async ...) calls the callbacks one after another without
\* waiting for any of them
ProbeMayStart(i) == i = next

\* Slip: one AbortController shared by all the probes.
AbortTargetsShared(i) == Probes

\* The requests the controller of probe i aborts: the controller is created
\* inside the callback and its signal is passed to that callback's fetch only
AbortTargets(i) == {i}

\* Slip: Promise.race in place of Promise.allSettled.
ProbesJoinedRace == \E i \in Probes : probe[i] \notin {"unstarted", "inflight"}

\* await Promise.allSettled(...): resumes once every promise has settled
ProbesJoined == \A i \in Probes : probe[i] \in {"fulfilled", "rejected"}

\* Synchronous code or a microtask of the handler is runnable
SyncPending ==
  \/ pc = "mapping" /\ ProbeMayStart(next)
  \/ pc = "awaiting" /\ ProbesJoined

\* The settlement Promise.allSettled reports for the promise of probe i
Settlement(i) ==
  IF probe[i] = "fulfilled"
    THEN [status |-> "fulfilled", value |-> value[i]]
    ELSE [status |-> "rejected", reason |-> Undefined]

\* Slip: the settlements collected in the order of completion.
healthChecksByCompletion ==
  [k \in Probes |->
     IF k <= Len(settleOrder) THEN Settlement(settleOrder[k]) ELSE Settlement(k)]

\* const healthChecks: Promise.allSettled keeps the order of its input
healthChecks == [k \in Probes |-> Settlement(k)]

\* ------------------------------------------------------------- aggregation
\* Slip: the entries of the failed probes dropped from the list.
resultsWithoutErrors ==
  SelectSeq([k \in Probes |->
               IF healthChecks[k].status = "fulfilled"
                 THEN healthChecks[k].value
                 ELSE [ service |-> serviceNames[k],
                        url     |-> serviceMap[serviceNames[k]],
                        status  |-> "error",
                        error   |-> "Unknown error" ]],
            LAMBDA r : r.status # "error")

\* const results = healthChecks.map((result, index) => ...)
results ==
  [k \in Probes |->
     IF healthChecks[k].status = "fulfilled"
       THEN healthChecks[k].value
       ELSE [ service |-> serviceNames[k],
              url     |-> serviceMap[serviceNames[k]],
              status  |-> "error",
              error   |-> "Unknown error" ]]

\* Slip: every entry that is not an error counted as healthy.
healthyCountNotError(rs) ==
  Cardinality({k \in DOMAIN rs : rs[k].status # "error"})

\* results.filter(r => r.status === 'healthy').length
healthyCount(rs) == Cardinality({k \in DOMAIN rs : rs[k].status = "healthy"})

\* results.length
totalCount(rs) == Len(rs)

\* Slip: healthy as soon as one service is healthy.
allHealthySome(rs) == healthyCount(rs) > 0

\* const allHealthy = healthyCount === totalCount
allHealthy(rs) == healthyCount(rs) = totalCount(rs)

\* Slip: the endpoint always answers 200.
statusCodeAlways200(rs) == 200

\* res.status(allHealthy ? 200 : 503)
statusCode(rs) == IF allHealthy(rs) THEN 200 ELSE 503

\* summary: `${healthyCount}/${totalCount} services healthy`
summary(rs) ==
  ToString(healthyCount(rs)) \o "/" \o ToString(totalCount(rs))
    \o " services healthy"

\* The body passed to .json(...) (lines 73-78)
AggregateBody(rs) ==
  [ status   |-> IF allHealthy(rs) THEN "healthy" ELSE "degraded",
    summary  |-> summary(rs),
    services |-> rs ]

\* The response of the outer catch (lines 80-86)
ErrorResponse(message) ==
  [ code |-> 500, body |-> [status |-> "error", message |-> message] ]

\* ----------------------------------------------------------------- actions
Settle(S, entry, event) ==
  /\ probe' = [j \in DOMAIN probe |-> IF j \in S THEN "fulfilled" ELSE probe[j]]
  /\ value' = [j \in DOMAIN value |-> IF j \in S THEN entry[j] ELSE value[j]]
  /\ net'   = [j \in DOMAIN net   |-> IF j \in S THEN event ELSE net[j]]
  /\ settleOrder' =
       settleOrder \o SelectSeq([k \in Probes |-> k], LAMBDA j : j \in S)

NoRequest == [method |-> "none"]
NoPrev == [kind |-> "none"]

\* The gateway process before it is started
GatewayInit ==
  /\ draft = "none"
  /\ rewritesOriginalUrl = FALSE
  /\ crashed = FALSE
  /\ gwPc = "down"
  /\ req = NoRequest
  /\ unread = ""
  /\ sent = << >>
  /\ upstream = NoEvent
  /\ thrown = "none"
  /\ gwElapsed = 0
  /\ gwResponse = NoResponse
  /\ prev = NoPrev

NoLookup == [name |-> "none"]

\* config.js has been loaded: CONFIG is built, nothing has been looked up
RegistryInit ==
  /\ services = CONFIG.services
  /\ lookup = NoLookup

\* OnboardingFlow is mounted (lines 20-24)
OnboardingInit ==
  /\ currentStep = 1
  /\ loading = FALSE
  /\ savePc = "idle"
  /\ stepAtSave = 0
  /\ saveOutcome = "none"

NoSave == [sent |-> FALSE]

\* CareerSelection is mounted (lines 170-174)
CareerInit ==
  /\ selectedCareers = << >>
  /\ isSaving = FALSE
  /\ careerPc = "shown"
  /\ saveRequest = NoSave
  /\ lastToast = "none"

Init ==
  /\ GatewayInit
  /\ RegistryInit
  /\ OnboardingInit
  /\ CareerInit
  /\ isProduction \in BOOLEAN
  /\ pc = "idle"
  /\ serviceMap = Undefined
  /\ next = 1
  /\ probe = << >>
  /\ value = << >>
  /\ net = << >>
  /\ timer = << >>
  /\ deadline = << >>
  /\ aborted = << >>
  /\ issued = << >>
  /\ settleOrder = << >>
  /\ elapsed = 0
  /\ response = NoResponse

\* router.get('/health/full'): the request arrives (lines 14-19); an
\* exception of the synchronous part is answered by the outer catch
HealthFull ==
  /\ UNCHANGED << gatewayVars, registryVars, onboardingVars, careerVars >>
  /\ pc \in {"idle", "responded"}
  /\ LET map == getServiceMap(isProduction)
         names == IF map = Undefined THEN << >> ELSE ObjectKeys(map)
         P == 1..Len(names)
     IN /\ serviceMap' = map
        /\ next' = 1
        /\ probe' = [i \in P |-> "unstarted"]
        /\ value' = [i \in P |-> NoValue]
        /\ net' = [i \in P |-> NoEvent]
        /\ timer' = [i \in P |-> "none"]
        /\ deadline' = [i \in P |-> 0]
        /\ aborted' = [i \in P |-> FALSE]
        /\ issued' = << >>
        /\ settleOrder' = << >>
        /\ elapsed' = 0
        /\ IF map = Undefined
             THEN /\ pc' = "responded"
                  /\ response' =
                       ErrorResponse("Cannot convert undefined or null to object")
             ELSE /\ pc' = IF Len(names) = 0 THEN "awaiting" ELSE "mapping"
                  /\ response' = NoResponse
  /\ UNCHANGED isProduction

\* The callback of serviceNames.map for service i, up to its await
\* (lines 23-33): controller, timer, fetch
StartProbe(i) ==
  /\ UNCHANGED << gatewayVars, registryVars, onboardingVars, careerVars >>
  /\ pc = "mapping"
  /\ ProbeMayStart(i)
  /\ timer' = [timer EXCEPT ![i] = "pending"]
  /\ deadline' = [deadline EXCEPT ![i] = elapsed + ProbeTimeout]
  /\ aborted' = [aborted EXCEPT ![i] = FALSE]
  /\ issued' = Append(issued, healthUrl(serviceMap[serviceNames[i]]))
  /\ probe' = [probe EXCEPT ![i] = "inflight"]
  /\ next' = next + 1
  /\ pc' = IF next = N THEN "awaiting" ELSE "mapping"
  /\ UNCHANGED << isProduction, serviceMap, value, net, settleOrder, elapsed,
                  response >>

\* The fetch of probe i resolves with a response: clearTimeout and the
\* returned entry (lines 35-43)
FetchResponse(i, code, hdr) ==
  /\ UNCHANGED << gatewayVars, registryVars, onboardingVars, careerVars >>
  /\ ~SyncPending
  /\ probe[i] = "inflight"
  /\ timer' = [timer EXCEPT ![i] = "cleared"]
  /\ Settle({i}, [j \in Probes |-> ResponseEntry(j, code, hdr)],
            [kind |-> "response", status |-> code])
  /\ UNCHANGED << isProduction, pc, serviceMap, next, deadline, aborted,
                  issued, elapsed, response >>

\* The fetch of probe i rejects with a network error: the catch
\* (lines 44-50); the timer is left armed
FetchFailure(i) ==
  /\ UNCHANGED << gatewayVars, registryVars, onboardingVars, careerVars >>
  /\ ~SyncPending
  /\ probe[i] = "inflight"
  /\ Settle({i}, [j \in Probes |-> ErrorEntry(j, FetchFailedMessage)],
            [kind |-> "failure"])
  /\ UNCHANGED << isProduction, pc, serviceMap, next, timer, deadline,
                  aborted, issued, elapsed, response >>

\* The timer of probe i fires: controller.abort() (line 28); a fetch still
\* in flight on that controller's signal rejects and its callback takes the
\* catch (lines 44-50)
TimerFire(i) ==
  /\ UNCHANGED << gatewayVars, registryVars, onboardingVars, careerVars >>
  /\ ~SyncPending
  /\ timer[i] = "pending"
  /\ elapsed >= deadline[i]
  /\ timer' = [timer EXCEPT ![i] = "fired"]
  /\ aborted' = [j \in DOMAIN aborted |-> aborted[j] \/ j \in AbortTargets(i)]
  /\ Settle({j \in AbortTargets(i) : probe[j] = "inflight"},
            [j \in Probes |-> ErrorEntry(j, AbortedMessage)],
            [kind |-> "abort"])
  /\ UNCHANGED << isProduction, pc, serviceMap, next, deadline, issued,
                  elapsed, response >>

\* One second passes while a timer is armed; a timer fires when it is due
Tick ==
  /\ UNCHANGED << gatewayVars, registryVars, onboardingVars, careerVars >>
  /\ ~SyncPending
  /\ \E i \in DOMAIN timer : timer[i] = "pending"
  /\ elapsed < MaxElapsed
  /\ \A i \in DOMAIN timer : timer[i] = "pending" => elapsed < deadline[i]
  /\ elapsed' = elapsed + 1
  /\ UNCHANGED << isProduction, pc, serviceMap, next, probe, value, net,
                  timer, deadline, aborted, issued, settleOrder, response >>

\* The handler resumes after the await and answers (lines 56-78)
Respond ==
  /\ UNCHANGED << gatewayVars, registryVars, onboardingVars, careerVars >>
  /\ pc = "awaiting"
  /\ ProbesJoined
  /\ response' = [code |-> statusCode(results), body |-> AggregateBody(results)]
  /\ pc' = "responded"
  /\ UNCHANGED << isProduction, serviceMap, next, probe, value, net, timer,
                  deadline, aborted, issued, settleOrder, elapsed >>

Next ==
  \/ HealthFull
  \/ \E i \in Probes : StartProbe(i)
  \/ \E i \in Probes, a \in Answers :
       FetchResponse(i, a.status, a.responseTime)
  \/ \E i \in Probes : FetchFailure(i)
  \/ \E i \in Probes : TimerFire(i)
  \/ Tick
  \/ Respond

Spec == Init /\ [][Next]_vars

\* The event loop runs what is runnable, fires due timers, and time passes
FairSpec ==
  /\ Spec
  /\ WF_vars(\E i \in Probes : StartProbe(i))
  /\ WF_vars(\E i \in Probes : TimerFire(i))
  /\ WF_vars(Tick)
  /\ WF_vars(Respond)

TypeOK ==
  /\ pc \in {"idle", "mapping", "awaiting", "responded"}
  /\ elapsed \in 0..MaxElapsed
  /\ \A i \in Probes : probe[i] \in {"unstarted", "inflight", "fulfilled", "rejected"}

\* ------------------------------------------------------------------ claims
\* C1: the aggregate status of the full health check is "healthy" if and
\* only if every probe result has status "healthy", and "degraded"
\* otherwise; one failing probe in an otherwise healthy run makes it degraded.
C1_AggregateHealthyIffAllHealthy ==
  pc = "responded" =>
    /\ response.body.status = "healthy"
         <=> \A i \in Probes : value[i].status = "healthy"
    /\ response.body.status = "degraded"
         <=> \E i \in Probes : value[i].status # "healthy"

\* C1 witness: exactly one probe of the run is not healthy and the
\* aggregate is degraded.
C1_Witness ==
  /\ pc = "responded"
  /\ \E i \in Probes :
       /\ value[i].status \in {"unhealthy", "error"}
       /\ \A j \in Probes \ {i} : value[j].status = "healthy"
  /\ response.body.status = "degraded"

\* C2: the HTTP status code of the full health check is 200 exactly when
\* the aggregate status of the body is "healthy" and 503 exactly when it is
\* "degraded".
C2_CodeMatchesBodyStatus ==
  pc = "responded" =>
    /\ response.code = 200 <=> response.body.status = "healthy"
    /\ response.code = 503 <=> response.body.status = "degraded"

\* C2 witness: a degraded run answered with 503.
C2_Witness ==
  /\ pc = "responded"
  /\ response.code = 503
  /\ response.body.status = "degraded"
  /\ \E i \in Probes : value[i].status = "unhealthy"

\* C3: a full health check over a registry of N services issues exactly N
\* probes, one GET to baseUrl + "/health" per registered service, and returns
\* exactly N entries, entry k carrying the name and URL of service k,
\* whatever the outcomes of the probes.
C3_ExactlyNProbesAndEntries ==
  LET registry == IF isProduction THEN CONFIG.services.production
                                  ELSE CONFIG.services.local
      n == Cardinality(DOMAIN registry)
  IN /\ Len(issued) <= n
     /\ \A k \in 1..Len(issued) :
          issued[k] = registry[ServiceOrder[k]] \o "/health"
     /\ pc \in {"awaiting", "responded"} => Len(issued) = n
     /\ pc = "responded" =>
          /\ Len(response.body.services) = n
          /\ \A k \in 1..n :
               /\ response.body.services[k].service = ServiceOrder[k]
               /\ response.body.services[k].url = registry[ServiceOrder[k]]

\* C3 witness: a run in which one probe succeeded, one failed at network
\* level and one timed out has been answered.
C3_Witness ==
  /\ pc = "responded"
  /\ Len(response.body.services) = N
  /\ \E i, j, k \in Probes :
       /\ net[i].kind = "response"
       /\ net[j].kind = "failure"
       /\ net[k].kind = "abort"

\* C4: the aggregate response is produced only after every probe has
\* settled; a probe that failed early neither lets the response go out while
\* another probe is in flight nor keeps another probe from being started.
C4_ResponseOnlyAfterAllSettled ==
  /\ response # NoResponse =>
       \A i \in Probes : probe[i] \in {"fulfilled", "rejected"}
  /\ (\E i \in Probes : probe[i] \in {"fulfilled", "rejected"}) =>
       \A j \in Probes : probe[j] # "unstarted"

\* C4 witness: the probe that settled first failed, the one that settled
\* last got a healthy answer, and the response has been sent.
C4_Witness ==
  /\ pc = "responded"
  /\ Len(settleOrder) = N
  /\ N >= 2
  /\ value[settleOrder[1]].status = "error"
  /\ value[settleOrder[N]].status = "healthy"

\* C5: when the timeout of a probe fires only that probe's request is
\* aborted and recorded as "error"; the sibling probes are left as they are,
\* and a probe keeps the outcome it reached.
C5_TimeoutAbortsOnlyOwnProbe ==
  [][(pc \in {"mapping", "awaiting"}) =>
      ((\A i \in Probes :
          (timer[i] = "pending" /\ timer'[i] = "fired") =>
            (/\ aborted'[i]
             /\ probe[i] = "inflight" => value'[i].status = "error"
             /\ \A j \in Probes \ {i} :
                  /\ probe'[j] = probe[j]
                  /\ value'[j] = value[j]
                  /\ aborted'[j] = aborted[j]
                  /\ timer'[j] = timer[j]))
       /\ (\A j \in Probes :
             probe[j] \in {"fulfilled", "rejected"} =>
               (probe'[j] = probe[j] /\ value'[j] = value[j])))]_vars

\* C5 witness: a probe was aborted by its timeout and a sibling that was
\* still in flight then got its answer afterwards.
C5_Witness ==
  \E m, n \in 1..Len(settleOrder) :
    /\ m < n
    /\ net[settleOrder[m]].kind = "abort"
    /\ net[settleOrder[n]].kind = "response"
    /\ value[settleOrder[n]].status = "healthy"

\* C6: a full health check always eventually responds, even when services
\* never answer: the probes run concurrently and each settles by its own
\* timeout, so the handler is never still waiting later than one probe
\* timeout after the request, and a run with a silent and a responsive
\* service reports them as "error" and "healthy" and is "degraded".
C6_RespondsWithinOneTimeout ==
  /\ (pc \in {"mapping", "awaiting"}) ~> (pc = "responded")
  /\ [](pc \in {"mapping", "awaiting"} => elapsed <= ProbeTimeout)
  /\ [][(pc = "awaiting" /\ pc' = "responded") =>
          elapsed' <= ProbeTimeout]_vars
  /\ [](pc = "responded" =>
          \A i, j \in Probes :
            (net[i].kind = "abort" /\ net[j].kind = "response"
               /\ net[j].status = 200) =>
              (/\ response.body.services[i].status = "error"
               /\ response.body.services[j].status = "healthy"
               /\ response.body.status = "degraded"))

\* C6 witness: one service stayed silent until its probe timed out, another
\* answered 200, and the degraded response went out at the probe timeout.
C6_Witness ==
  /\ pc = "responded"
  /\ elapsed = ProbeTimeout
  /\ \E i, j \in Probes :
       /\ net[i].kind = "abort"
       /\ net[j].kind = "response" /\ net[j].status = 200
       /\ response.body.services[i].status = "error"
       /\ response.body.services[j].status = "healthy"
  /\ response.body.status = "degraded"

\* C7: the result of a full health check depends on the outcome of each
\* probe only, not on the order in which the probes completed: entry k
\* describes the k-th registered service and its outcome, and the aggregate
\* status and the HTTP code follow from the outcomes.
C7_ResultIndependentOfCompletionOrder ==
  pc = "responded" =>
    LET outcome == [k \in Probes |->
                      IF net[k].kind = "response"
                        THEN IF net[k].status \in 200..299
                               THEN "healthy" ELSE "unhealthy"
                        ELSE "error"]
        healthy == \A k \in Probes : outcome[k] = "healthy"
    IN /\ DOMAIN response.body.services = Probes
       /\ \A k \in Probes :
            /\ response.body.services[k].service = ServiceOrder[k]
            /\ response.body.services[k].status = outcome[k]
       /\ response.body.status = IF healthy THEN "healthy" ELSE "degraded"
       /\ response.code = IF healthy THEN 200 ELSE 503

\* C7 witness: the probes completed in another order than they were
\* started, with different outcomes, and the response has been sent.
C7_Witness ==
  /\ pc = "responded"
  /\ N >= 2
  /\ settleOrder[1] # 1
  /\ value[settleOrder[1]].status # value[1].status

\* C8: each probe result has exactly one of the statuses "healthy" (2xx
\* answer), "unhealthy" (non-2xx answer) and "error" (timeout or network
\* failure); it carries statusCode exactly when it is healthy or unhealthy
\* and error exactly when its status is "error".
C8_ProbeResultShape ==
  \A i \in Probes :
    probe[i] \in {"fulfilled", "rejected"} =>
      LET e == IF pc = "responded" THEN response.body.services[i] ELSE value[i]
      IN /\ e.status \in {"healthy", "unhealthy", "error"}
         /\ e.status = "healthy"
              <=> (net[i].kind = "response" /\ net[i].status \in 200..299)
         /\ e.status = "unhealthy"
              <=> (net[i].kind = "response" /\ net[i].status \notin 200..299)
         /\ e.status = "error" <=> net[i].kind \in {"failure", "abort"}
         /\ "statusCode" \in DOMAIN e <=> e.status \in {"healthy", "unhealthy"}
         /\ "error" \in DOMAIN e <=> e.status = "error"
         /\ "statusCode" \in DOMAIN e => e.statusCode = net[i].status

\* C8 witness: one response holds a healthy, an unhealthy and an error entry.
C8_Witness ==
  /\ pc = "responded"
  /\ \E i, j, k \in Probes :
       /\ response.body.services[i].status = "healthy"
       /\ response.body.services[i].statusCode = 204
       /\ response.body.services[j].status = "unhealthy"
       /\ response.body.services[j].statusCode = 503
       /\ response.body.services[k].status = "error"
       /\ "statusCode" \notin DOMAIN response.body.services[k]

\* C9: whatever subset of the probes fails, GET /health/full answers with an
\* aggregate body of status "healthy" or "degraded" and code 200 or 503,
\* never with a 500 error response.
C9_DegradationIsNot500 ==
  pc = "responded" =>
    /\ response.code \in {200, 503}
    /\ response.body.status \in {"healthy", "degraded"}
    /\ "services" \in DOMAIN response.body

\* C9 witness: every probe failed and the answer is 503 "degraded".
C9_Witness ==
  /\ pc = "responded"
  /\ \A i \in Probes : value[i].status = "error"
  /\ \E i \in Probes : net[i].kind = "failure"
  /\ response.code = 503
  /\ response.body.status = "degraded"

\* C10 as stated: the aggregate body carries a healthyCount and a totalCount
\* field holding the number of healthy entries and the number of entries.
C10_Original ==
  pc = "responded" =>
    /\ "healthyCount" \in DOMAIN response.body
    /\ "totalCount" \in DOMAIN response.body
    /\ response.body.healthyCount =
         Cardinality({k \in DOMAIN response.body.services :
                        response.body.services[k].status = "healthy"})
    /\ response.body.totalCount = Len(response.body.services)

\* C10 amended: the aggregate body carries the two counts in its summary
\* string "<healthyCount>/<totalCount> services healthy" only: healthyCount
\* is the number of healthy entries of services, totalCount the number of
\* entries, 0 <= healthyCount <= totalCount, and the two are equal exactly
\* when the aggregate status is "healthy".
C10_SummaryCounts ==
  pc = "responded" =>
    LET h == Cardinality({k \in DOMAIN response.body.services :
                            response.body.services[k].status = "healthy"})
        t == Len(response.body.services)
    IN /\ DOMAIN response.body = {"status", "summary", "services"}
       /\ response.body.summary =
            ToString(h) \o "/" \o ToString(t) \o " services healthy"
       /\ 0 <= h /\ h <= t
       /\ h = t <=> response.body.status = "healthy"

\* C10 witness: a response whose summary counts some but not all services.
C10_Witness ==
  /\ pc = "responded"
  /\ N >= 3
  /\ response.body.summary =
       ToString(N - 2) \o "/" \o ToString(N) \o " services healthy"
  /\ \E i, j \in Probes :
       /\ response.body.services[i].status = "unhealthy"
       /\ response.body.services[j].status = "error"

\* C27: once the full health check has sent its response no probe timer is
\* pending: the timer of a probe is cancelled when the probe settles, on a
\* response as well as on a network error that comes before the timeout.
C27_NoTimerPendingAfterResponse ==
  /\ pc = "responded" => \A i \in DOMAIN timer : timer[i] # "pending"
  /\ \A i \in DOMAIN net :
       net[i].kind \in {"response", "failure"} => timer[i] = "cleared"

\* ================================================================ gateway
\* The servers of api-gateway/index.js: the express application with the
\* proxy routes (lines 1-103), the bare http server (lines 105-126), and an
\* express application serving the quick health route of the health router.
\* One request is followed at a time; the servers keep no state between
\* requests.  Query strings and the case of paths are left out.

\* ------------------------------------------------------------------ bounds
\* Cap of the clock of a forwarded request.
MaxGwElapsed == 61

\* ------------------------------------------------------- program constants
\* CONFIG.proxyTimeout: parseInt(process.env.PROXY_TIMEOUT) || 60000, in
\* seconds
ProxyTimeout == 60

\* null of JavaScript
Null == "null"

\* serviceMap['constructor'] of an object literal: the function Object,
\* found on the prototype
ObjectConstructor == "[Function: Object]"
InheritedNames == {"constructor"}

\* Slip: a missing entry answered with the empty string.
getServiceUrlOrEmpty(prod, serviceName) ==
  IF serviceName \in DOMAIN getServiceMap(prod)
    THEN getServiceMap(prod)[serviceName]
    ELSE ""

\* getServiceUrl(serviceName): null unless serviceMap[serviceName] is truthy
getServiceUrl(prod, serviceName) ==
  IF serviceName \in DOMAIN getServiceMap(prod)
    THEN getServiceMap(prod)[serviceName]
  ELSE IF serviceName \in InheritedNames
    THEN ObjectConstructor
  ELSE Null

StartsWith(str, prefix) ==
  Len(str) >= Len(prefix) /\ SubSeq(str, 1, Len(prefix)) = prefix

Drop(str, n) == SubSeq(str, n + 1, Len(str))

\* app.use(mount, createProxyMiddleware({ target, changeOrigin: true,
\* pathRewrite: { '^' + pattern: replacement } })), in order of registration
ProxyRules ==
  << [ mount |-> "/api/users", target |-> "http://user-service:5001",
       pattern |-> "/api/users", replacement |-> "" ],
     [ mount |-> "/api/ai", target |-> "http://ai-guidance:5002",
       pattern |-> "/api/ai", replacement |-> "" ],
     [ mount |-> "/api/career", target |-> "http://career-atlas:5003",
       pattern |-> "/api/career", replacement |-> "" ],
     [ mount |-> "/api/portfolio", target |-> "http://portfolio-service:5004",
       pattern |-> "/api/portfolio", replacement |-> "" ],
     [ mount |-> "/api/game", target |-> "http://gamification-service:5005",
       pattern |-> "/api/game", replacement |-> "" ],
     [ mount |-> "/api/simulation", target |-> "http://simulation-service:5006",
       pattern |-> "/api/simulation", replacement |-> "" ],
     [ mount |-> "/api/interview", target |-> "http://mock-interview:5008",
       pattern |-> "/api/interview", replacement |-> "" ],
     [ mount |-> "/api/notifications",
       target |-> "http://notification-service:5009",
       pattern |-> "/api/notifications", replacement |-> "" ],
     [ mount |-> "/api/news", target |-> "http://news-feeds-service:5010",
       pattern |-> "/api/news", replacement |-> "" ] >>

\* ----------------------------------------------------------------- inputs
Methods == {"GET", "POST", "OPTIONS"}

Paths ==
  { "/", "/health", "/services", "/nope", "/api/unknown/x",
    "/api/users/profile/42", "/api/users/api/users/x", "/api/ai/chat" }

JsonType == "application/json"
JsonText == "{\"email\":\"a@b.c\"}"

\* Content-Type and body of a request
Payloads ==
  { [type |-> "", body |-> ""],
    [type |-> JsonType, body |-> JsonText],
    [type |-> JsonType, body |-> "{"],
    [type |-> "text/plain", body |-> "hello"] }

\* GET and OPTIONS requests carry no body
Requests ==
  { r \in { [method |-> m, path |-> p, type |-> l.type, body |-> l.body] :
              m \in Methods, p \in Paths, l \in Payloads } :
      r.method = "POST" \/ r.body = "" }

\* Status codes an upstream service may answer with
UpstreamCodes == {200, 404, 500}

\* err.code of a failed upstream request
UpstreamErrors == {"ECONNREFUSED", "ECONNRESET", "ENOTFOUND", "EPIPE"}

\* ------------------------------------------------------------ express app
\* app.use(mount, ..): the mount path matches a whole prefix of segments
MountMatches(mount, path) ==
  /\ StartsWith(path, mount)
  /\ \/ Len(path) = Len(mount)
     \/ SubSeq(path, Len(mount) + 1, Len(mount) + 1) = "/"

\* req.url inside a mounted middleware: the mount path is stripped
MountedUrl(mount, path) ==
  IF Drop(path, Len(mount)) = "" THEN "/" ELSE Drop(path, Len(mount))

\* pathRewrite: { '^/api/x': '' }: path.replace(regex, replacement)
RewritePath(rule, path) ==
  IF StartsWith(path, rule.pattern)
    THEN rule.replacement \o Drop(path, Len(rule.pattern))
    ELSE path

\* The path of the upstream request: the library rewrites req.originalUrl
\* (http-proxy-middleware 2.x) or req.url as express left it (3.x)
ProxyPath(rule, originalUrl) ==
  RewritePath(rule, IF rewritesOriginalUrl
                      THEN originalUrl
                      ELSE MountedUrl(rule.mount, originalUrl))

\* express.json(): a JSON body is read off the stream and parsed
JsonParsed(r) == r.type = JsonType /\ r.body # ""
ValidJson(text) == text = JsonText
Unread(r) == IF JsonParsed(r) THEN "" ELSE r.body

\* The request written to the upstream service: method and headers are
\* copied, host is set to the target (changeOrigin), and what is left of
\* the inbound stream is piped
UpstreamRequest(rule, r) ==
  [ target        |-> rule.target,
    host          |-> rule.target,
    method        |-> r.method,
    path          |-> ProxyPath(rule, r.path),
    contentType   |-> r.type,
    contentLength |-> Len(r.body),
    body          |-> Unread(r) ]

\* app.get('/health') of index.js (lines 17-33)
GatewayHealthBody ==
  [ status   |-> "healthy",
    services |->
      ("user-service" :> "http://user-service:5001")
        @@ ("ai-guidance" :> "http://ai-guidance:5002")
        @@ ("career-atlas" :> "http://career-atlas:5003")
        @@ ("portfolio" :> "http://portfolio-service:5004")
        @@ ("gamification" :> "http://gamification-service:5005")
        @@ ("simulation" :> "http://simulation-service:5006")
        @@ ("mock-interview" :> "http://mock-interview:5008")
        @@ ("notification" :> "http://notification-service:5009")
        @@ ("news-feeds" :> "http://news-feeds-service:5010") ]

\* The middleware stack of the express application (lines 10-98), then the
\* final handler of express
ExpressHandle(r) ==
  LET matching == {k \in DOMAIN ProxyRules : MountMatches(ProxyRules[k].mount, r.path)}
      first == CHOOSE k \in matching : \A j \in matching : k <= j
  IN IF r.method = "OPTIONS"
       THEN [kind |-> "respond", code |-> 204, body |-> [text |-> ""]]
     ELSE IF JsonParsed(r) /\ ~ValidJson(r.body)
       THEN [kind |-> "respond", code |-> 400,
             body |-> [html |-> "SyntaxError"]]
     ELSE IF r.method = "GET" /\ r.path = "/health"
       THEN [kind |-> "respond", code |-> 200, body |-> GatewayHealthBody]
     ELSE IF r.method = "GET" /\ r.path = "/services"
       THEN [kind |-> "respond", code |-> 200,
             body |-> [services |-> << "user-service", "ai-guidance",
                                       "career-atlas", "portfolio",
                                       "gamification", "simulation",
                                       "mock-interview", "notification",
                                       "news-feeds" >>]]
     ELSE IF matching # {}
       THEN [kind |-> "forward",
             upstream |-> UpstreamRequest(ProxyRules[first], r)]
     ELSE [kind |-> "respond", code |-> 404,
           body |-> [html |-> "Cannot " \o r.method \o " " \o r.path]]

\* ------------------------------------------------------------ http server
\* http.createServer handler (lines 108-119): the second writeHead of the
\* last branch throws ERR_HTTP_HEADERS_SENT
HttpHandle(r) ==
  IF r.path = "/health"
    THEN [kind |-> "respond", code |-> 200, body |-> [ok |-> TRUE]]
  ELSE IF r.path = "/"
    THEN [kind |-> "respond", code |-> 200,
          body |-> [message |-> "API Gateway OK"]]
  ELSE [kind |-> "throw", error |-> "ERR_HTTP_HEADERS_SENT"]

\* ---------------------------------------------------------- health router
\* router.get('/health') of the health router (lines 93-99)
QuickHealth(r) ==
  [ kind |-> "respond", code |-> 200,
    body |-> [status |-> "healthy", service |-> "api-gateway"] ]

\* Slip: a circuit breaker, a service whose last request failed is not
\* tried again.
HandleWithBreaker(r) ==
  IF draft = "express"
    THEN IF /\ prev.kind = "failed"
            /\ ExpressHandle(r).kind = "forward"
            /\ ExpressHandle(r).upstream.target = prev.target
           THEN [kind |-> "respond", code |-> 503,
                 body |-> [error |-> "Service Unavailable"]]
           ELSE ExpressHandle(r)
  ELSE IF draft = "http" THEN HttpHandle(r)
  ELSE QuickHealth(r)

\* The handler of the running server
Handle(r) ==
  IF draft = "express" THEN ExpressHandle(r)
  ELSE IF draft = "http" THEN HttpHandle(r)
  ELSE QuickHealth(r)

\* ------------------------------------------------------------ proxy errors
\* Slip: a failed request is sent to the upstream once more.
ProxyErrorDispositionRetry(code) ==
  IF Len(sent) < 2 THEN "retry" ELSE "respond"

\* What the proxy does with an error of the upstream request: no retry is
\* configured, the error handler of the library answers
ProxyErrorDisposition(code) == "respond"

\* Status of the library's default error response (no onError is given)
ProxyErrorStatus(code) ==
  IF code \in {"ECONNRESET", "ENOTFOUND", "ECONNREFUSED", "ETIMEDOUT"}
    THEN 504
    ELSE 500

\* ----------------------------------------------------------------- actions
\* app.listen / server.listen: the process starts one of the servers
GwStart ==
  /\ gwPc = "down"
  /\ draft' \in {"express", "http", "router"}
  /\ rewritesOriginalUrl' \in (IF draft' = "express" THEN BOOLEAN ELSE {FALSE})
  /\ gwPc' = "idle"
  /\ UNCHANGED << crashed, req, unread, sent, upstream, thrown, gwElapsed,
                  gwResponse, prev >>
  /\ UNCHANGED << healthVars, registryVars, onboardingVars, careerVars >>

\* A request arrives and runs through the handler of the server until it is
\* answered, forwarded, or an exception escapes the handler.  Of the health
\* router only the quick route is served here.
GwRequest(r) ==
  /\ gwPc = "idle"
  /\ ~crashed
  /\ draft = "router" => (r.method = "GET" /\ r.path = "/health")
  /\ req' = r
  /\ upstream' = NoEvent
  /\ gwElapsed' = 0
  /\ LET out == Handle(r)
     IN /\ unread' = IF draft = "express" /\ r.method # "OPTIONS"
                       THEN Unread(r) ELSE r.body
        /\ sent' = IF out.kind = "forward" THEN << out.upstream >> ELSE << >>
        /\ gwResponse' = IF out.kind = "respond"
                           THEN [code |-> out.code, body |-> out.body]
                           ELSE NoResponse
        /\ thrown' = IF out.kind = "throw" THEN out.error ELSE "none"
        /\ crashed' = (out.kind = "throw")
        /\ gwPc' = IF out.kind = "respond" THEN "done"
                   ELSE IF out.kind = "forward" THEN "waiting"
                   ELSE "crashed"
  /\ UNCHANGED << draft, rewritesOriginalUrl, prev >>
  /\ UNCHANGED << healthVars, registryVars, onboardingVars, careerVars >>

\* The upstream service answers: the answer is relayed to the caller
UpstreamResponds(code) ==
  /\ gwPc = "waiting"
  /\ upstream' = [kind |-> "response", status |-> code]
  /\ gwResponse' = [code |-> code, body |-> [from |-> sent[Len(sent)].target]]
  /\ gwPc' = "done"
  /\ UNCHANGED << draft, rewritesOriginalUrl, crashed, req, unread, sent,
                  thrown, gwElapsed, prev >>
  /\ UNCHANGED << healthVars, registryVars, onboardingVars, careerVars >>

\* The upstream request fails: the error event of the proxy
UpstreamFails(code) ==
  /\ gwPc = "waiting"
  /\ upstream' = [kind |-> "error", code |-> code]
  /\ IF ProxyErrorDisposition(code) = "retry"
       THEN /\ sent' = Append(sent, sent[Len(sent)])
            /\ UNCHANGED << gwPc, gwResponse >>
       ELSE /\ gwResponse' =
                 [ code |-> ProxyErrorStatus(code),
                   body |-> [text |-> "Error occurred while trying to proxy"] ]
            /\ gwPc' = "done"
            /\ UNCHANGED sent
  /\ UNCHANGED << draft, rewritesOriginalUrl, crashed, req, unread, thrown,
                  gwElapsed, prev >>
  /\ UNCHANGED << healthVars, registryVars, onboardingVars, careerVars >>

\* One second passes while the upstream service is silent; no timeout is
\* given to createProxyMiddleware
GwTick ==
  /\ gwPc = "waiting"
  /\ gwElapsed < MaxGwElapsed
  /\ gwElapsed' = gwElapsed + 1
  /\ UNCHANGED << draft, rewritesOriginalUrl, crashed, gwPc, req, unread,
                  sent, upstream, thrown, gwResponse, prev >>
  /\ UNCHANGED << healthVars, registryVars, onboardingVars, careerVars >>

\* How the request being answered ended: answered by the gateway itself,
\* relayed from the upstream service, or failed at the upstream service
Outcome ==
  [ kind   |-> IF sent = << >> THEN "local"
               ELSE IF upstream.kind = "error" THEN "failed"
               ELSE "relayed",
    target |-> IF sent = << >> THEN "none" ELSE sent[1].target ]

\* The response has been written out; the server is ready for the next
\* request and keeps nothing of the last one
GwFinish ==
  /\ gwPc = "done"
  /\ gwPc' = "idle"
  /\ req' = NoRequest
  /\ unread' = ""
  /\ sent' = << >>
  /\ upstream' = NoEvent
  /\ gwElapsed' = 0
  /\ gwResponse' = NoResponse
  /\ prev' = Outcome
  /\ UNCHANGED << draft, rewritesOriginalUrl, crashed, thrown >>
  /\ UNCHANGED << healthVars, registryVars, onboardingVars, careerVars >>

GatewayNext ==
  \/ GwStart
  \/ \E r \in Requests : GwRequest(r)
  \/ \E code \in UpstreamCodes : UpstreamResponds(code)
  \/ \E code \in UpstreamErrors : UpstreamFails(code)
  \/ GwTick
  \/ GwFinish

GatewaySpec == Init /\ [][GatewayNext]_vars

\* ------------------------------------------------------------------ claims
\* C11: for every proxy rule a request to prefix + "/x" is forwarded with
\* path "/x": the prefix is removed exactly once, also when the remainder
\* begins with the same prefix.
C11_PrefixRemovedOnce ==
  (gwPc = "waiting" /\ sent # << >>) =>
    \A k \in DOMAIN ProxyRules :
      StartsWith(req.path, ProxyRules[k].mount \o "/") =>
        sent[1].path = Drop(req.path, Len(ProxyRules[k].mount))

\* C12: every request whose path starts with a registered prefix is
\* forwarded to the base URL the registry resolves for the target service of
\* that prefix, and to no other service.
C12_ForwardedToResolvedService ==
  LET serviceOf == [ users |-> "/api/users/", ai |-> "/api/ai/" ]
      nameOf == [ users |-> "users", ai |-> "ai-guidance" ]
  IN \A s \in DOMAIN serviceOf :
       (gwPc \in {"waiting", "done"} /\ draft = "express"
          /\ req.method \in {"GET", "POST"}
          /\ req.body \in {"", JsonText}
          /\ StartsWith(req.path, serviceOf[s])) =>
         /\ Len(sent) = 1
         /\ sent[1].target = getServiceUrl(isProduction, nameOf[s])

\* C13: a proxied request reaches the upstream with the method and the body
\* of the inbound request, also when it carries a JSON body that went
\* through the body-parsing middleware; only the path prefix is changed.
C13_MethodAndBodyPreserved ==
  (gwPc = "waiting" /\ sent # << >>) =>
    /\ sent[1].method = req.method
    /\ sent[1].contentType = req.type
    /\ sent[1].body = req.body

\* C14: a request whose target service cannot be resolved (an /api/ path
\* under no configured prefix) is answered 503 "Service Unavailable" and no
\* outbound call is made for it.
C14_UnconfiguredTarget503 ==
  (gwPc \in {"waiting", "done", "crashed"} /\ draft = "express"
     /\ req.method \in {"GET", "POST"}
     /\ req.body \in {"", JsonText}
     /\ StartsWith(req.path, "/api/")
     /\ \A k \in DOMAIN ProxyRules : ~StartsWith(req.path, ProxyRules[k].mount)) =>
    /\ gwPc = "done"
    /\ sent = << >>
    /\ gwResponse.code = 503
    /\ "error" \in DOMAIN gwResponse.body
    /\ gwResponse.body.error = "Service Unavailable"

\* C15: when the upstream of a proxied request refuses the connection or
\* fails, the caller receives a 502 response with error "Bad Gateway".
C15_UpstreamFailure502 ==
  upstream.kind = "error" =>
    /\ gwPc = "done"
    /\ gwResponse.code = 502
    /\ "error" \in DOMAIN gwResponse.body
    /\ gwResponse.body.error = "Bad Gateway"

\* C16: if the upstream never responds the proxy timeout fires and the
\* request is answered: no proxied request is still pending later than the
\* proxy timeout after it was forwarded.
C16_AnsweredByProxyTimeout ==
  gwPc = "waiting" => gwElapsed <= ProxyTimeout

\* C17: the gateway makes at most one upstream attempt per inbound request:
\* after a failed attempt the request is not sent again and the failure is
\* given to the caller directly.
C17_SingleUpstreamAttempt ==
  /\ Len(sent) <= 1
  /\ upstream.kind = "error" =>
       /\ Len(sent) = 1
       /\ gwPc = "done"
       /\ gwResponse.code >= 500

\* C17 witness: the single attempt failed and the caller got the error.
C17_Witness ==
  /\ upstream.kind = "error"
  /\ upstream.code = "ECONNREFUSED"
  /\ Len(sent) = 1
  /\ gwPc = "done"
  /\ gwResponse.code = 504

\* C18: a request whose path matches no route of the http server is
\* answered 404 with error "Not Found", and the gateway goes on serving
\* requests afterwards.
C18_UnmatchedRoute404 ==
  (gwPc \in {"waiting", "done", "crashed"}
     /\ draft = "http"
     /\ req.path \notin {"/", "/health"}) =>
    /\ ~crashed
    /\ gwPc = "done"
    /\ gwResponse.code = 404
    /\ "error" \in DOMAIN gwResponse.body
    /\ gwResponse.body.error = "Not Found"

\* C19: an exception raised while handling a request is caught and turned
\* into a 500 response for that request; the process does not crash.
C19_ExceptionBecomes500 ==
  /\ ~crashed
  /\ thrown # "none" => (gwPc = "done" /\ gwResponse.code = 500)

\* C20: GET /health always answers 200 with status "healthy" and service
\* "api-gateway" and issues no outbound request.
C20_LivenessAnswer ==
  (gwPc \in {"waiting", "done", "crashed"}
     /\ req.method = "GET" /\ req.path = "/health") =>
    /\ gwPc = "done"
    /\ sent = << >>
    /\ gwResponse.code = 200
    /\ {"status", "service"} \subseteq DOMAIN gwResponse.body
    /\ gwResponse.body.status = "healthy"
    /\ gwResponse.body.service = "api-gateway"

ClientCalls ==
  {
    [ api |-> "authAPI", call |-> "login", method |-> "POST",
      path |-> "/api/users/auth/login", data |-> TRUE ],
    [ api |-> "authAPI", call |-> "signup", method |-> "POST",
      path |-> "/api/users/auth/signup", data |-> TRUE ],
    [ api |-> "authAPI", call |-> "logout", method |-> "POST",
      path |-> "/api/users/auth/logout", data |-> FALSE ],
    [ api |-> "authAPI", call |-> "refresh", method |-> "POST",
      path |-> "/api/users/auth/refresh", data |-> FALSE ],
    [ api |-> "authAPI", call |-> "verifyEmail", method |-> "POST",
      path |-> "/api/users/auth/verify-email", data |-> TRUE ],
    [ api |-> "authAPI", call |-> "resetPassword", method |-> "POST",
      path |-> "/api/users/auth/reset-password", data |-> TRUE ],
    [ api |-> "onboardingAPI", call |-> "step1BasicInfo", method |-> "POST",
      path |-> "/api/users/onboarding/step1/basic-info", data |-> TRUE ],
    [ api |-> "onboardingAPI", call |-> "step2UploadExperience", method |-> "POST",
      path |-> "/api/users/onboarding/step2/upload-experience", data |-> TRUE ],
    [ api |-> "onboardingAPI", call |-> "step3SkillsPicker", method |-> "POST",
      path |-> "/api/users/onboarding/step3/skills-picker", data |-> TRUE ],
    [ api |-> "onboardingAPI", call |-> "step4Psychometric", method |-> "POST",
      path |-> "/api/users/onboarding/step4/psychometric-submit", data |-> TRUE ],
    [ api |-> "onboardingAPI", call |-> "step5Empathy", method |-> "POST",
      path |-> "/api/users/onboarding/step5/empathy-submit", data |-> TRUE ],
    [ api |-> "onboardingAPI", call |-> "step6CareerPreferences", method |-> "POST",
      path |-> "/api/users/onboarding/step6/career-preferences", data |-> TRUE ],
    [ api |-> "onboardingAPI", call |-> "getStatus", method |-> "GET",
      path |-> "/api/users/onboarding/status", data |-> FALSE ],
    [ api |-> "careerAPI", call |-> "discover", method |-> "POST",
      path |-> "/api/careers/discover/suggest-careers", data |-> TRUE ],
    [ api |-> "careerAPI", call |-> "getRecommendations", method |-> "GET",
      path |-> "/api/careers/42/recommendations", data |-> FALSE ],
    [ api |-> "careerAPI", call |-> "getCareerById", method |-> "GET",
      path |-> "/api/careers/42", data |-> FALSE ],
    [ api |-> "careerAPI", call |-> "searchCareers", method |-> "GET",
      path |-> "/api/careers/search", data |-> FALSE ],
    [ api |-> "aiAPI", call |-> "getPsychometricQuestions", method |-> "GET",
      path |-> "/api/ai/psychometric/questions", data |-> FALSE ],
    [ api |-> "aiAPI", call |-> "submitPsychometric", method |-> "POST",
      path |-> "/api/ai/psychometric/complete", data |-> TRUE ],
    [ api |-> "aiAPI", call |-> "getEmpathyQuestions", method |-> "GET",
      path |-> "/api/empathy/questions", data |-> FALSE ],
    [ api |-> "aiAPI", call |-> "submitEmpathy", method |-> "POST",
      path |-> "/api/empathy/assess", data |-> TRUE ],
    [ api |-> "aiAPI", call |-> "generateRoadmap", method |-> "POST",
      path |-> "/api/ai/roadmap/generate", data |-> TRUE ],
    [ api |-> "userAPI", call |-> "getProfile", method |-> "GET",
      path |-> "/api/users/profile", data |-> FALSE ],
    [ api |-> "userAPI", call |-> "updateProfile", method |-> "PUT",
      path |-> "/api/users/profile", data |-> TRUE ],
    [ api |-> "userAPI", call |-> "getPreferences", method |-> "GET",
      path |-> "/api/users/preferences", data |-> FALSE ],
    [ api |-> "userAPI", call |-> "savePreferences", method |-> "POST",
      path |-> "/api/users/preferences/save", data |-> TRUE ],
    [ api |-> "userAPI", call |-> "getActivity", method |-> "GET",
      path |-> "/api/users/activity", data |-> FALSE ],
    [ api |-> "userAPI", call |-> "getActivityStats", method |-> "GET",
      path |-> "/api/users/activity/stats", data |-> FALSE ],
    [ api |-> "skillsAPI", call |-> "getAllSkills", method |-> "GET",
      path |-> "/api/users/skills", data |-> FALSE ],
    [ api |-> "skillsAPI", call |-> "searchSkills", method |-> "GET",
      path |-> "/api/users/skills/search", data |-> FALSE ],
    [ api |-> "skillsAPI", call |-> "getSkillsByCategory", method |-> "GET",
      path |-> "/api/users/skills/category/42", data |-> FALSE ],
    [ api |-> "portfolioAPI", call |-> "getPortfolio", method |-> "GET",
      path |-> "/api/portfolio/42", data |-> FALSE ],
    [ api |-> "portfolioAPI", call |-> "updatePortfolio", method |-> "PUT",
      path |-> "/api/portfolio", data |-> TRUE ],
    [ api |-> "portfolioAPI", call |-> "addProject", method |-> "POST",
      path |-> "/api/portfolio/projects", data |-> TRUE ],
    [ api |-> "portfolioAPI", call |-> "removeProject", method |-> "DELETE",
      path |-> "/api/portfolio/projects/42", data |-> FALSE ],
    [ api |-> "gamificationAPI", call |-> "getChallenges", method |-> "GET",
      path |-> "/api/gamification/challenges", data |-> FALSE ],
    [ api |-> "gamificationAPI", call |-> "joinChallenge", method |-> "POST",
      path |-> "/api/gamification/challenges/42/join", data |-> FALSE ],
    [ api |-> "gamificationAPI", call |-> "updateProgress", method |-> "POST",
      path |-> "/api/gamification/challenges/42/progress", data |-> TRUE ],
    [ api |-> "gamificationAPI", call |-> "getAchievements", method |-> "GET",
      path |-> "/api/gamification/achievements", data |-> FALSE ],
    [ api |-> "gamificationAPI", call |-> "getLeaderboard", method |-> "GET",
      path |-> "/api/gamification/leaderboard", data |-> FALSE ],
    [ api |-> "gamificationAPI", call |-> "getPoints", method |-> "GET",
      path |-> "/api/gamification/points", data |-> FALSE ],
    [ api |-> "interviewAPI", call |-> "createSession", method |-> "POST",
      path |-> "/api/interview/sessions/create", data |-> TRUE ],
    [ api |-> "interviewAPI", call |-> "getQuestions", method |-> "GET",
      path |-> "/api/interview/sessions/42/questions", data |-> FALSE ],
    [ api |-> "interviewAPI", call |-> "submitResponse", method |-> "POST",
      path |-> "/api/interview/sessions/42/response", data |-> TRUE ],
    [ api |-> "interviewAPI", call |-> "getSessionFeedback", method |-> "GET",
      path |-> "/api/interview/sessions/42/feedback", data |-> FALSE ],
    [ api |-> "simulationAPI", call |-> "startSimulation", method |-> "POST",
      path |-> "/api/simulation/start", data |-> TRUE ],
    [ api |-> "simulationAPI", call |-> "submitAnswer", method |-> "POST",
      path |-> "/api/simulation/42/answer", data |-> TRUE ],
    [ api |-> "simulationAPI", call |-> "getResults", method |-> "GET",
      path |-> "/api/simulation/42/results", data |-> FALSE ],
    [ api |-> "notificationsAPI", call |-> "getNotifications", method |-> "GET",
      path |-> "/api/notifications", data |-> FALSE ],
    [ api |-> "notificationsAPI", call |-> "markAsRead", method |-> "PUT",
      path |-> "/api/notifications/42/read", data |-> FALSE ],
    [ api |-> "notificationsAPI", call |-> "deleteNotification", method |-> "DELETE",
      path |-> "/api/notifications/42", data |-> FALSE ],
    [ api |-> "newsAPI", call |-> "getUpdates", method |-> "GET",
      path |-> "/api/news/updates", data |-> FALSE ],
    [ api |-> "newsAPI", call |-> "getByCategory", method |-> "GET",
      path |-> "/api/news/category/42", data |-> FALSE ] }

\* The request axios sends for a call: data is serialised as JSON, a call
\* without data carries neither a body nor a Content-Type
ClientRequest(c) ==
  [ method |-> c.method,
    path   |-> c.path,
    type   |-> IF c.data THEN JsonType ELSE "",
    body   |-> IF c.data THEN JsonText ELSE "" ]

\* The requests of all the calls of the client
ClientRequests == {ClientRequest(c) : c \in ClientCalls}

ClientNext ==
  \/ GwStart
  \/ \E r \in ClientRequests : GwRequest(r)
  \/ \E code \in UpstreamCodes : UpstreamResponds(code)
  \/ \E code \in UpstreamErrors : UpstreamFails(code)
  \/ GwFinish

ClientSpec == Init /\ [][ClientNext]_vars

\* C25: every path the API client of the front end requests falls under the
\* prefix of some proxy rule of the gateway: every client call is forwarded
\* to a service and none gets the 404 of an unmatched route.
C25_ClientPathsMatchARule ==
  (draft = "express" /\ gwPc \in {"waiting", "done"}) =>
    /\ \E k \in DOMAIN ProxyRules : MountMatches(ProxyRules[k].mount, req.path)
    /\ Len(sent) = 1
    /\ ~(upstream = NoEvent /\ gwResponse.code = 404)

\* =============================================================== registry
\* Callers of getServiceUrl.  A call is synchronous: it runs between two
\* events of the servers, and its result lives in the caller's frame until
\* the caller returns.  The handlers neither read nor write that frame, so
\* calls are followed between requests only.

\* ----------------------------------------------------------------- inputs
\* Names looked up: the registered ones, one that is in no URL set, and one
\* that every object inherits
LookupNames == RegisteredNames \cup {"unknown"} \cup InheritedNames

\* typeof of what getServiceUrl returns (null for null)
JsType(v) ==
  IF v = Null THEN "null"
  ELSE IF v = ObjectConstructor THEN "function"
  ELSE "string"

\* Slip: a miss is remembered in the map (serviceMap[serviceName] = null).
ServicesAfterMissCached(cfg, prod, serviceName) ==
  [ k \in DOMAIN cfg |->
      IF k = (IF prod THEN "production" ELSE "local")
        THEN [ n \in DOMAIN cfg[k] \cup {serviceName} |->
                 IF n \in DOMAIN cfg[k] THEN cfg[k][n] ELSE Null ]
        ELSE cfg[k] ]

\* CONFIG.services after getServiceUrl(serviceName): the function reads the
\* map and assigns nothing
ServicesAfterLookup(cfg, prod, serviceName) == cfg

\* No request is being handled and no health check is running
Quiescent == pc = "idle" /\ gwPc \in {"down", "idle"}

\* ----------------------------------------------------------------- actions
\* A caller calls getServiceUrl(serviceName) (lines 263-270); the call
\* throws only if getServiceMap() gave no object
GetServiceUrl(serviceName) ==
  /\ Quiescent
  /\ lookup' =
       IF getServiceMap(isProduction) = Undefined
         THEN [ name |-> serviceName, before |-> lookup.name,
                threw |-> TRUE, type |-> "none", value |-> "" ]
         ELSE [ name |-> serviceName, before |-> lookup.name,
                threw |-> FALSE,
                type |-> JsType(getServiceUrl(isProduction, serviceName)),
                value |-> getServiceUrl(isProduction, serviceName) ]
  /\ services' = ServicesAfterLookup(services, isProduction, serviceName)
  /\ UNCHANGED << healthVars, gatewayVars, onboardingVars, careerVars >>

\* The caller returns and its frame is gone
LookupReturn ==
  /\ lookup # NoLookup
  /\ lookup' = NoLookup
  /\ UNCHANGED services
  /\ UNCHANGED << healthVars, gatewayVars, onboardingVars, careerVars >>

\* Lookups between the requests of the servers; a process serves the health
\* router or one of the servers of index.js
RegistryNext ==
  \/ \E serviceName \in LookupNames : GetServiceUrl(serviceName)
  \/ LookupReturn
  \/ (lookup = NoLookup /\ gwPc = "down" /\ Next)
  \/ (lookup = NoLookup /\ pc = "idle" /\ GatewayNext)

RegistrySpec == Init /\ [][RegistryNext]_vars

\* ------------------------------------------------------------------ claims
\* The URL set the environment flag read at start selects
ChosenSet ==
  IF isProduction THEN CONFIG.services.production ELSE CONFIG.services.local

\* The proxy rule a path falls under
RuleOf(path) ==
  CHOOSE k \in DOMAIN ProxyRules :
    /\ MountMatches(ProxyRules[k].mount, path)
    /\ \A j \in DOMAIN ProxyRules :
         MountMatches(ProxyRules[j].mount, path) => k <= j

\* C21: resolve(s) gives the same URL for a registered name s at every
\* point of the life of the process, and no request, probe, failure or
\* lookup (also of an unknown name) adds, removes or changes a registry
\* entry or a proxy rule.
C21_RegistryNeverChanges ==
  /\ services = CONFIG.services
  /\ lookup.name \in RegisteredNames =>
       /\ ~lookup.threw
       /\ lookup.value = ChosenSet[lookup.name]
  /\ serviceMap # Undefined => serviceMap = ChosenSet
  /\ sent # << >> => sent[1].target = ProxyRules[RuleOf(req.path)].target

\* C21 witness: a registered name is resolved right after an unknown name
\* was looked up, in a process in which a proxied request has failed.
C21_Witness ==
  /\ lookup.name = "users"
  /\ lookup.before = "unknown"
  /\ lookup.value = ChosenSet["users"]
  /\ prev.kind = "failed"
  /\ services = CONFIG.services

\* C22: looking up a name that is not in the registry returns undefined and
\* raises no exception; looking up a registered name never returns
\* undefined.
C22_UnknownNameGivesUndefined ==
  lookup # NoLookup =>
    /\ ~lookup.threw
    /\ lookup.name \notin RegisteredNames => lookup.type = "undefined"
    /\ lookup.name \in RegisteredNames => lookup.type # "undefined"

\* C23: every name is resolved from exactly one URL set, the production set
\* when the environment flag says production and the local set otherwise;
\* no two lookups of one process are answered from different sets.
C23_OneUrlSetPerProcess ==
  /\ lookup.name \in RegisteredNames =>
       /\ lookup.value = (IF isProduction THEN ProductionUrls
                                          ELSE LocalUrls)[NameIndex(lookup.name)]
       /\ isProduction => lookup.value \notin {LocalUrls[k] : k \in Registered}
       /\ ~isProduction =>
            lookup.value \notin {ProductionUrls[k] : k \in Registered}
  /\ \A k \in 1..Len(issued) :
       issued[k] = (IF isProduction THEN ProductionUrls ELSE LocalUrls)[k]
                     \o "/health"

\* C23 witness: in a production process two registered names have been
\* looked up one after the other, both answered from the production set.
C23_Witness ==
  /\ isProduction
  /\ lookup.name = "ai-guidance"
  /\ lookup.before = "users"
  /\ lookup.value = ProductionUrls[2]

StepsLength == 6

\* How the fetch of saveOnboarding may end: response.ok, a response that is
\* not ok, or a rejection
SaveOutcomes == {"ok", "notOk", "throws"}

\* The step navigation is rendered (lines 56-58)
NavigationShown == currentStep # StepsLength + 1

\* handleNext (lines 29-35), a click on Next / Complete
ClickNext ==
  /\ NavigationShown
  /\ ~loading
  /\ IF currentStep < StepsLength
       THEN /\ currentStep' = currentStep + 1
            /\ UNCHANGED << loading, savePc >>
       ELSE /\ loading' = TRUE
            /\ savePc' = "fetching"
            /\ UNCHANGED currentStep
  /\ UNCHANGED << stepAtSave, saveOutcome >>
  /\ UNCHANGED << healthVars, gatewayVars, registryVars, careerVars >>

\* handlePrevious (lines 36-38), a click on Previous
ClickPrevious ==
  /\ NavigationShown
  /\ currentStep # 1
  /\ currentStep' = IF currentStep > 1 THEN currentStep - 1 ELSE currentStep
  /\ UNCHANGED << loading, savePc, stepAtSave, saveOutcome >>
  /\ UNCHANGED << healthVars, gatewayVars, registryVars, careerVars >>

\* saveOnboarding resumes after the await (lines 47-54)
SaveAnswered(outcome) ==
  /\ savePc = "fetching"
  /\ stepAtSave' = currentStep
  /\ saveOutcome' = outcome
  /\ currentStep' = IF outcome = "ok" THEN StepsLength + 1 ELSE currentStep
  /\ loading' = FALSE
  /\ savePc' = "idle"
  /\ UNCHANGED << healthVars, gatewayVars, registryVars, careerVars >>

OnboardingNext ==
  \/ ClickNext
  \/ ClickPrevious
  \/ \E outcome \in SaveOutcomes : SaveAnswered(outcome)

OnboardingSpec == Init /\ [][OnboardingNext]_vars

\* C28: under any sequence of Next and Previous clicks and save outcomes
\* currentStep stays within 1..7; Previous never goes below step 1; Next
\* advances by exactly one step while below step 6; the completion screen
\* (step 7) is reached only from step 6 and only after the save returned an
\* ok response; when the save returns non-ok or throws, currentStep stays 6
\* and loading is reset to false.
C28_OnboardingSteps ==
  /\ currentStep \in 1..(StepsLength + 1)
  /\ currentStep = StepsLength + 1 =>
       /\ saveOutcome = "ok"
       /\ stepAtSave = StepsLength
  /\ (savePc = "idle" /\ saveOutcome \in {"notOk", "throws"}) =>
       /\ stepAtSave = StepsLength
       /\ ~loading

\* ======================================================= career selection
\* The component CareerSelection (pages/Onboarding/CareerQuiz.jsx, lines
\* 168-324) once the recommendations are shown.  The cards are numbered in
\* list order.  Cards are selected going down the list (a card is added
\* only below the last selected one) and deselected in any order: the
\* handlers treat the ids alike, and the lists stay few enough to explore.

\* ------------------------------------------------------------------ bounds
\* Number of recommendation cards shown.
NumCareers == 11
\* ------------------------------------------------------- program constants
\* selectedCareers.length < 10
MaxCareers == 10

CareerIds == 1..NumCareers

\* selectedCareers.includes(careerId)
Includes(list, careerId) == \E k \in DOMAIN list : list[k] = careerId

\* Slip: the test of the limit left out.
handleToggleCareerNoLimit(list, careerId) ==
  IF Includes(list, careerId)
    THEN [ selected |-> SelectSeq(list, LAMBDA id : id # careerId),
           toast |-> "none" ]
    ELSE [ selected |-> Append(list, careerId), toast |-> "none" ]

\* handleToggleCareer(careerId) (lines 214-224): the new value of
\* selectedCareers and the message shown
handleToggleCareer(list, careerId) ==
  IF Includes(list, careerId)
    THEN [ selected |-> SelectSeq(list, LAMBDA id : id # careerId),
           toast |-> "none" ]
  ELSE IF Len(list) < MaxCareers
    THEN [ selected |-> Append(list, careerId), toast |-> "none" ]
  ELSE [ selected |-> list, toast |-> "Maximum 10 careers allowed" ]

\* The Continue button is enabled (line 317)
ContinueEnabled == ~(isSaving \/ Len(selectedCareers) = 0)

\* ----------------------------------------------------------------- actions
\* A click on the card of careerId
ToggleCareer(careerId) ==
  /\ \/ Includes(selectedCareers, careerId)
     \/ Len(selectedCareers) >= MaxCareers
     \/ \A k \in DOMAIN selectedCareers : selectedCareers[k] < careerId
  /\ selectedCareers' = handleToggleCareer(selectedCareers, careerId).selected
  /\ lastToast' =
       IF handleToggleCareer(selectedCareers, careerId).toast = "none"
         THEN lastToast
         ELSE handleToggleCareer(selectedCareers, careerId).toast
  /\ UNCHANGED << isSaving, careerPc, saveRequest >>
  /\ UNCHANGED << healthVars, gatewayVars, registryVars, onboardingVars >>

\* A click on Continue: handleSaveSelections up to its await (lines 226-244)
SaveSelections ==
  /\ ContinueEnabled
  /\ IF Len(selectedCareers) = 0
       THEN /\ lastToast' = "Please select at least 1 career"
            /\ UNCHANGED << isSaving, careerPc, saveRequest >>
       ELSE /\ isSaving' = TRUE
            /\ careerPc' = "saving"
            /\ saveRequest' = [sent |-> TRUE, count |-> Len(selectedCareers)]
            /\ UNCHANGED lastToast
  /\ UNCHANGED selectedCareers
  /\ UNCHANGED << healthVars, gatewayVars, registryVars, onboardingVars >>

\* handleSaveSelections resumes after the await (lines 246-254)
SelectionsAnswered(outcome) ==
  /\ careerPc = "saving"
  /\ IF outcome = "ok"
       THEN /\ lastToast' = "Career selection saved!"
            /\ careerPc' = "saved"
            /\ UNCHANGED isSaving
       ELSE /\ lastToast' = IF outcome = "notOk" THEN "Failed to save profile"
                                                ELSE "Failed to fetch"
            /\ careerPc' = "shown"
            /\ isSaving' = FALSE
  /\ UNCHANGED << selectedCareers, saveRequest >>
  /\ UNCHANGED << healthVars, gatewayVars, registryVars, onboardingVars >>

CareerNext ==
  \/ \E careerId \in CareerIds : ToggleCareer(careerId)
  \/ SaveSelections
  \/ \E outcome \in SaveOutcomes : SelectionsAnswered(outcome)

CareerSpec == Init /\ [][CareerNext]_vars

\* C29: under any sequence of toggle clicks selectedCareers never holds
\* more than 10 ids and never the same id twice; toggling a selected id
\* removes it, toggling an unselected id adds it only while fewer than 10
\* are selected; no save request is sent while the selection is empty.
C29_CareerSelection ==
  [][ /\ Len(selectedCareers') <= 10
      /\ (\A j, k \in DOMAIN selectedCareers' :
            selectedCareers'[j] = selectedCareers'[k] => j = k)
      /\ (selectedCareers' # selectedCareers =>
            \/ \E id \in CareerIds :
                 /\ Includes(selectedCareers, id)
                 /\ selectedCareers' =
                      SelectSeq(selectedCareers, LAMBDA x : x # id)
            \/ \E id \in CareerIds :
                 /\ ~Includes(selectedCareers, id)
                 /\ Len(selectedCareers) < 10
                 /\ selectedCareers' = Append(selectedCareers, id))
      /\ (careerPc' = "saving" /\ careerPc # "saving" =>
            /\ selectedCareers # << >>
            /\ saveRequest'.sent
            /\ saveRequest'.count > 0) ]_vars

\* C29 witness: ten careers are selected and the click on an eleventh has
\* been refused.
C29_Witness ==
  /\ Len(selectedCareers) = 10
  /\ lastToast = "Maximum 10 careers allowed"
  /\ ~Includes(selectedCareers, NumCareers)

====
